---- MODULE Spec2Model ----
(***************************************************************************)
(* A model of the Vortran Stradus laser driver: the request/reply exchange *)
(* of StradusLaser._send over a serial line, get/set on top of it, the     *)
(* constructor's setup exchanges, and the decoding of the fault code into  *)
(* a laser state and a list of faults.                                     *)
(*                                                                         *)
(* Two revisions of the driver are in the repository, src/stradus.py       *)
(* ("stradus") and src/vortran_laser/stradus.py ("vortran"); the variable  *)
(* rev says which one is running.  Text is a sequence of one-character     *)
(* strings, so that str.lstrip, bytes.rstrip, int() and read_until are     *)
(* computed character by character as Python computes them.                *)
(***************************************************************************)
EXTENDS Integers, Sequences, FiniteSets, TLC

VARIABLES
    rev,      \* which revision of the driver runs: "stradus" or "vortran"
    pc,       \* where the caller is: constructor steps, "Ready", or inside a facade call
    phase,    \* state of the exchange in _send
    msg,      \* the message handed to _send (without the trailing \r)
    wire,     \* every message written to the serial port so far, in order
    rx,       \* bytes the device has emitted that the driver has not read yet
    frame1,   \* what the first read_until of the current exchange returned
    frame2,   \* what the second read_until of the current exchange returned
    nwrites,  \* number of writes made in the current exchange
    nreads,   \* number of read_until calls made in the current exchange
    timer,    \* perf_counter() - start_time at the moment the pending read begins
    reply,    \* the text _send returned (kept after the call for inspection)
    result,   \* the outcome of the last finished call: a value or an exception
    raise_timeout, \* the raise_timeout argument of the current _send call
    fcode,    \* the number in the device's fault-code register
    answered, \* how many of the messages on the wire the device has replied to
    cache,    \* what functools.cache holds for the wavelength property
    other,    \* a second caller on the same connection: the locals of its call
    serialized, \* whether the application guards the connection with a lock
    arg       \* the value argument of the facade call in progress, as text

\* What an exchange leaves alone: the device's progress, the wavelength
\* cache, the second caller, the argument of the facade call.
apart == <<answered, cache, other, serialized, arg>>

vars == <<rev, pc, phase, msg, wire, rx, frame1, frame2, nwrites, nreads,
          timer, reply, result, raise_timeout, fcode, apart>>

----------------------------------------------------------------------------
(* Bounds of the model.                                                    *)

\* The exchanges (writes) one behaviour may perform.
MaxExchanges == 3
\* The bytes the input buffer may hold unread.
MaxRx == 4
\* How far the driver's perf_counter measurement around a timed-out read may
\* lie from the serial timeout, on either side.
ClockSkew == 1
\* Length of the value strings tried on get().
MaxValueLen == 2

----------------------------------------------------------------------------
(* Characters and text.                                                    *)

CR == "\r"
LF == "\n"
SP == " "

\* StradusLaser.REPLY_TERMINATION = b'\r\n'
REPLY_TERMINATION == <<CR, LF>>

Revisions == {"stradus", "vortran"}

\* STRADUS_COM_SETUP["timeout"]: the serial read timeout, in seconds.
SerialTimeout(r) == IF r = "stradus" THEN 5 ELSE 1

\* p is a prefix of s.
IsPrefix(p, s) == Len(p) <= Len(s) /\ SubSeq(s, 1, Len(p)) = p

\* The characters of s as a set.
Chars(s) == {s[i] : i \in 1..Len(s)}

\* str.lstrip(chars): drop leading characters while they are in the set chars.
RECURSIVE LStrip(_, _)
LStrip(s, chars) ==
    IF s # <<>> /\ Head(s) \in chars THEN LStrip(Tail(s), chars) ELSE s

\* bytes.rstrip(chars): drop trailing characters while they are in the set chars.
RECURSIVE RStrip(_, _)
RStrip(s, chars) ==
    IF s # <<>> /\ s[Len(s)] \in chars
    THEN RStrip(SubSeq(s, 1, Len(s) - 1), chars)
    ELSE s

\* Position of the first occurrence of the two-byte terminator in s, 0 if none.
RECURSIVE FindTerm(_, _)
FindTerm(s, i) ==
    IF i + 1 > Len(s) THEN 0
    ELSE IF s[i] = CR /\ s[i + 1] = LF THEN i
    ELSE FindTerm(s, i + 1)

----------------------------------------------------------------------------
(* The command and query vocabularies, the fault table and the states.     *)

\* class Cmd(StrEnum).  The pulse-mode token differs between the revisions.
Cmd(r) ==
    [Echo                   |-> <<"E", "C", "H", "O">>,
     Prompt                 |-> <<"P", "R", "O", "M", "P", "T">>,
     LaserDriverControlMode |-> <<"C">>,
     ClearFaultCode         |-> <<"C", "F", "C">>,
     RecallFaultCode        |-> <<"R", "F", "C">>,
     FiveSecEmissionDelay   |-> <<"D", "E", "L", "A", "Y">>,
     ExternalPowerControl   |-> <<"E", "P", "C">>,
     LaserEmission          |-> <<"L", "E">>,
     LaserPower             |-> <<"L", "P">>,
     LaserCurrent           |-> <<"L", "C">>,
     PulsePower             |-> <<"P", "P">>,
     PulseMode              |-> IF r = "stradus" THEN <<"P", "U", "L">>
                                ELSE <<"P", "M">>,
     ThermalElectricCooler  |-> <<"T", "E", "C">>]

\* class Query(StrEnum): every token carries its leading '?'.
Query ==
    [BasePlateTemperature           |-> <<"?", "B", "P", "T">>,
     SystemFirmwareVersion          |-> <<"?", "S", "F", "V">>,
     SystemFirmwareProtocolVersion  |-> <<"?", "S", "P", "V">>,
     LaserDriverControlMode         |-> <<"?", "C">>,
     ComputerControl                |-> <<"?", "C", "C">>,
     FiveSecEmissionDelay           |-> <<"?", "D", "E", "L", "A", "Y">>,
     EchoStatus                     |-> <<"?", "E", "C", "H", "O">>,
     ExternalPowerControl           |-> <<"?", "E", "P", "C">>,
     FaultCode                      |-> <<"?", "F", "C">>,
     FaultDescription               |-> <<"?", "F", "D">>,
     FirmwareProtocol               |-> <<"?", "F", "P">>,
     FirmwareVersion                |-> <<"?", "F", "V">>,
     Help                           |-> <<"?", "H">>,
     InterlockStatus                |-> <<"?", "I", "L">>,
     LaserCurrent                   |-> <<"?", "L", "C">>,
     LaserCurrentSetting            |-> <<"?", "L", "C", "S">>,
     LaserEmission                  |-> <<"?", "L", "E">>,
     LaserOperatingHours            |-> <<"?", "L", "H">>,
     LaserIdentification            |-> <<"?", "L", "I">>,
     LaserPower                     |-> <<"?", "L", "P">>,
     LaserPowerSetting              |-> <<"?", "L", "P", "S">>,
     LaserWavelength                |-> <<"?", "L", "W">>,
     MaximumLaserPower              |-> <<"?", "M", "A", "X", "P">>,
     OpticalBlockTemperature        |-> <<"?", "O", "B", "T">>,
     OpticalBlockTemperatureSetting |-> <<"?", "O", "B", "T", "S">>,
     PulsePower                     |-> <<"?", "P", "P">>,
     RatedPower                     |-> <<"?", "R", "P">>,
     PulseMode                      |-> <<"?", "P", "U", "L">>,
     ThermalElectricCoolerStatus    |-> <<"?", "T", "E", "C">>]

QueryNames == DOMAIN Query

\* class BoolVal(StrEnum): OFF = "0", ON = "1".
BoolVal == [OFF |-> <<"0">>, ON |-> <<"1">>]

\* class FaultCodeField(IntEnum), in definition order (the order iteration
\* over the enum yields): 17 members, the first with value 0, the others the
\* powers of two 2^0 .. 2^15.
FaultCodeField ==
    << [name |-> "LASER_EMISSION_ACTIVE",        value |-> 0],
       [name |-> "STANDBY",                      value |-> 1],
       [name |-> "WARMUP",                       value |-> 2],
       [name |-> "VALUE_OUT_OF_RANGE",           value |-> 4],
       [name |-> "INVALID_COMMAND",              value |-> 8],
       [name |-> "INTERLOCK_OPEN",               value |-> 16],
       [name |-> "TEC_OFF",                      value |-> 32],
       [name |-> "DIODE_OVER_CURRENT",           value |-> 64],
       [name |-> "DIODE_TEMPERATURE_FAULT",      value |-> 128],
       [name |-> "BASE_PLATE_TEMPERATURE_FAULT", value |-> 256],
       [name |-> "POWER_LOCK_LOST",              value |-> 512],
       [name |-> "EEPROM_ERROR",                 value |-> 1024],
       [name |-> "I2C_ERROR",                    value |-> 2048],
       [name |-> "FAN",                          value |-> 4096],
       [name |-> "POWER_SUPPLY",                 value |-> 8192],
       [name |-> "TEMPERATURE",                  value |-> 16384],
       [name |-> "DIODE_END_OF_LIFE_INDICATOR",  value |-> 32768] >>

\* class StradusState / LaserState (IntEnum), in definition order.
StradusState ==
    << [name |-> "LASER_EMISSION_ACTIVE", value |-> 0],
       [name |-> "STANDBY",               value |-> 1],
       [name |-> "WARMUP",                value |-> 2],
       [name |-> "FAULT",                 value |-> 3] >>

\* StradusState.FAULT.value
FaultStateValue == StradusState[4].value

\* The fault code is a 16-bit number.
FaultCodeBits == 16
MaxFaultCode == 2^FaultCodeBits - 1

----------------------------------------------------------------------------
(* Numbers as text.                                                        *)

DigitChars == <<"0", "1", "2", "3", "4", "5", "6", "7", "8", "9">>

DigitValue(c) == CHOOSE d \in 0..9 : DigitChars[d + 1] = c

\* str(n) for an integer n: decimal digits, a leading '-' when negative.
RECURSIVE NatStr(_)
NatStr(n) ==
    IF n < 10 THEN <<DigitChars[n + 1]>>
    ELSE Append(NatStr(n \div 10), DigitChars[(n % 10) + 1])

IntStr(n) == IF n < 0 THEN <<"-">> \o NatStr(-n) ELSE NatStr(n)

\* The characters int() and str.strip() treat as whitespace (ASCII).
PyWhitespace == {SP, "\t", LF, CR, "\f"}

\* The digits of an int() literal: digits, single underscores between them.
RECURSIVE IsDigitRun(_)
IsDigitRun(s) ==
    /\ s # <<>>
    /\ Head(s) \in Chars(DigitChars)
    /\ \/ Len(s) = 1
       \/ IsDigitRun(Tail(s))
       \/ Len(s) >= 3 /\ s[2] = "_" /\ IsDigitRun(Tail(Tail(s)))

RECURSIVE DigitRunValue(_, _)
DigitRunValue(s, acc) ==
    IF s = <<>> THEN acc
    ELSE IF Head(s) = "_" THEN DigitRunValue(Tail(s), acc)
    ELSE DigitRunValue(Tail(s), 10 * acc + DigitValue(Head(s)))

\* int(s) for a str s: [ok |-> TRUE, val |-> n], or [ok |-> FALSE] where
\* Python raises ValueError.
PyInt(s) ==
    LET t      == RStrip(LStrip(s, PyWhitespace), PyWhitespace)
        signed == t # <<>> /\ Head(t) \in {"+", "-"}
        body   == IF signed THEN Tail(t) ELSE t
    IN  IF IsDigitRun(body)
        THEN [ok |-> TRUE,
              val |-> IF signed /\ Head(t) = "-"
                      THEN 0 - DigitRunValue(body, 0)
                      ELSE DigitRunValue(body, 0)]
        ELSE [ok |-> FALSE, val |-> 0]

\* bin(n)[-1]: the last character of Python's binary rendering of n.
BinLast(n) == IF (IF n < 0 THEN -n ELSE n) % 2 = 1 THEN "1" ELSE "0"

----------------------------------------------------------------------------
(* The pure parts of the driver.                                           *)

\* What a call hands back: a value of some kind, or an exception.
Value(kind, val) == [kind |-> kind, val |-> val]
Raised(exc)      == [kind |-> exc, val |-> <<>>]
Exceptions       == {"SerialTimeoutException", "ValueError", "SerialException"}

\* The variable result: the outcome of a finished call, with the call's name.
Finished(call, outcome) ==
    [call |-> call, kind |-> outcome.kind, val |-> outcome.val]
NoResult == [call |-> "none", kind |-> "none", val |-> <<>>]

\* SetMessage with a space after the equals sign, f"{cmd}= {value}".
SetMessageSpaced(cmd, value) == cmd \o <<"=", SP>> \o value

\* set(): the message f"{cmd}={value}".
SetMessage(cmd, value) == cmd \o <<"=">> \o value

\* get(): the argument of lstrip, f"?{setting}= " in src/stradus.py and
\* f"?{setting}=" in src/vortran_laser/stradus.py, where the Query member
\* formats as its value (which itself begins with '?').
StripArgument(r, setting) ==
    <<"?">> \o setting \o (IF r = "stradus" THEN <<"=", SP>> ELSE <<"=">>)

\* GetValue without the lstrip: the reply handed back as _send returned it.
GetValueVerbatim(r, setting, text) == text

\* get(): reply.lstrip(...), the argument taken as a set of characters.
GetValue(r, setting, text) == LStrip(text, Chars(StripArgument(r, setting)))

\* StateOf with the threshold the comment on StradusState.FAULT names
\* ("True if FaultCode > 32") in place of StradusState.FAULT.value.
StateOfAbove32(fault_code) ==
    IF fault_code > 32
    THEN Value("state", "FAULT")
    ELSE IF \E i \in 1..Len(StradusState) : StradusState[i].value = fault_code
    THEN Value("state",
               StradusState[CHOOSE i \in 1..Len(StradusState) :
                                StradusState[i].value = fault_code].name)
    ELSE Raised("ValueError")

\* state / get_state, after int(): FAULT above StradusState.FAULT.value,
\* otherwise StradusState(fault_code), which raises ValueError for a number
\* that is no member's value.
StateOf(fault_code) ==
    IF fault_code > FaultStateValue
    THEN Value("state", "FAULT")
    ELSE IF \E i \in 1..Len(StradusState) : StradusState[i].value = fault_code
    THEN Value("state",
               StradusState[CHOOSE i \in 1..Len(StradusState) :
                                StradusState[i].value = fault_code].name)
    ELSE Raised("ValueError")

\* The fields the loop of faults / get_faults iterates over: src/stradus.py
\* skips the first member with next(), the vortran revision does not.
FaultFields(r) == IF r = "stradus" THEN Tail(FaultCodeField) ELSE FaultCodeField

\* The for loop of faults with the test of the bit left out: the first field
\* is appended whatever the code.
FaultListUntested(r, fault_code) ==
    LET fields == FaultFields(r)
    IN  IF fields = <<>>
        THEN Value("None", <<>>)
        ELSE Value("list", <<Head(fields).name>>)

\* faults / get_faults, after int(): the for loop.  Its return statement is
\* inside the loop body, so the first iteration returns the list; falling
\* off an empty iteration would return None.
FaultList(r, fault_code) ==
    LET fields == FaultFields(r)
    IN  IF fields = <<>>
        THEN Value("None", <<>>)
        ELSE Value("list",
                   IF BinLast(fault_code) = "1"
                   THEN <<Head(fields).name>>
                   ELSE <<>>)

\* state / get_state on the text get() returned: int() may raise ValueError,
\* which the accessor does not catch.
StateAccessor(text) ==
    LET n == PyInt(text)
    IN  IF n.ok THEN StateOf(n.val) ELSE Raised("ValueError")

\* faults / get_faults on the text get() returned: ValueError from int() is
\* caught and None returned.
FaultsAccessor(r, text) ==
    LET n == PyInt(text)
    IN  IF n.ok THEN FaultList(r, n.val) ELSE Value("None", <<>>)

----------------------------------------------------------------------------
(* The serial transport.                                                   *)

\* Serial.read_until(b'\r\n') on a buffer: the bytes up to and including
\* the first terminator; without one, the read ends by the serial timeout
\* and returns (and consumes) whatever bytes there are, possibly none.
ReadUntil(buf) ==
    LET i == FindTerm(buf, 1)
    IN  IF i > 0
        THEN [data |-> SubSeq(buf, 1, i + 1),
              rest |-> SubSeq(buf, i + 2, Len(buf)),
              timedout |-> FALSE]
        ELSE [data |-> buf, rest |-> <<>>, timedout |-> TRUE]

\* What perf_counter() may measure across one read_until: up to the timeout
\* when the terminator arrived, about the timeout (a little less or more:
\* the driver's clock is not the one the transport waits on) when it did not.
ReadDurations(r, timedout) ==
    IF timedout
    THEN {d \in 0..(SerialTimeout(r) + ClockSkew) : d >= SerialTimeout(r) - ClockSkew}
    ELSE 0..SerialTimeout(r)

\* The timeout test without the raise_timeout flag: no bytes and the
\* measured time exceeds the serial timeout.
TimedOutUnflagged(r, data, strict, elapsed) ==
    Len(data) = 0 /\ elapsed > SerialTimeout(r)

\* The timeout test of _send after a read: no bytes, the caller asked for
\* timeouts to be raised, and the measured time exceeds the serial timeout.
TimedOut(r, data, strict, elapsed) ==
    Len(data) = 0 /\ strict /\ elapsed > SerialTimeout(r)

----------------------------------------------------------------------------
(* The device.                                                             *)

\* What the device may put on the line in one piece: an empty frame, a
\* payload byte, a lone carriage return.  Frames such as "1\r\n", "\r\n" and
\* "1\r\r\n" (a device that echoes the request's \r before its reply sends
\* such frames), and payload that stops short of its terminator, are built
\* from these.  The wire protocol is ASCII text.
DeviceChunks == {REPLY_TERMINATION, <<"1">>, <<CR>>}

\* Bytes a previous session may have left in the input buffer.
StaleInputs == {<<>>, <<"1">>, <<"1", CR, LF>>}

\* The device emits a chunk; the bytes wait in the input buffer.  Bytes that
\* arrive between two exchanges are read by the next read_until exactly as
\* bytes that arrive after the next write, so emission is modelled while a
\* read is pending; what an earlier session left behind is in Init.
DeviceEmit ==
    /\ phase \in {"AwaitingFirstDelimiter", "AwaitingSecondDelimiter"}
    /\ \E chunk \in DeviceChunks :
         /\ Len(rx) + Len(chunk) <= MaxRx
         /\ rx' = rx \o chunk
    /\ UNCHANGED <<rev, pc, phase, msg, wire, frame1, frame2, nwrites, nreads,
                   timer, reply, result, raise_timeout, fcode, apart>>

----------------------------------------------------------------------------
(* StradusLaser._send, one action per step of the exchange.                *)

Phases == {"Idle", "Sending", "AwaitingFirstDelimiter",
           "AwaitingSecondDelimiter", "Complete", "Failed"}

\* A caller enters _send(m, strict): nothing is written or read yet.
EnterSend(m, strict) ==
    /\ Len(wire) < MaxExchanges
    /\ phase' = "Sending"
    /\ msg' = m
    /\ raise_timeout' = strict
    /\ frame1' = <<>>
    /\ frame2' = <<>>
    /\ nwrites' = 0
    /\ nreads' = 0
    /\ reply' = <<>>
    /\ UNCHANGED <<wire, rx, timer>>

\* The call is over: the exchange is idle again.
LeaveSend ==
    /\ phase' = "Idle"
    /\ UNCHANGED <<msg, wire, rx, frame1, frame2, nwrites, nreads, timer,
                   reply, raise_timeout>>

\* msg = f"{msg}\r"; self.ser.write(...); start_time = perf_counter()
Write ==
    /\ phase = "Sending"
    /\ wire' = Append(wire, msg \o <<CR>>)
    /\ nwrites' = nwrites + 1
    /\ timer' = 0
    /\ phase' = "AwaitingFirstDelimiter"
    /\ UNCHANGED <<rev, pc, msg, rx, frame1, frame2, nreads, reply, result,
                   raise_timeout, fcode, apart>>

\* ReadFirst without the line that resets start_time: the second read is
\* timed from the write.
ReadFirstNoRestart ==
    /\ phase = "AwaitingFirstDelimiter"
    /\ LET r == ReadUntil(rx)
       IN  \E d \in ReadDurations(rev, r.timedout) :
             /\ rx' = r.rest
             /\ frame1' = r.data
             /\ nreads' = nreads + 1
             /\ timer' = timer + d
             /\ IF TimedOut(rev, r.data, raise_timeout, timer + d)
                THEN phase' = "Failed"
                ELSE phase' = "AwaitingSecondDelimiter"
    /\ UNCHANGED <<rev, pc, msg, wire, frame2, nwrites, reply, result,
                   raise_timeout, fcode, apart>>

\* ReadFirst that writes the request again when the first read returned
\* nothing and the test did not raise, and goes on awaiting the first frame.
ReadFirstResend ==
    /\ phase = "AwaitingFirstDelimiter"
    /\ LET r == ReadUntil(rx)
       IN  \E d \in ReadDurations(rev, r.timedout) :
             /\ rx' = r.rest
             /\ frame1' = r.data
             /\ IF TimedOut(rev, r.data, raise_timeout, timer + d)
                THEN /\ phase' = "Failed"
                     /\ nreads' = nreads + 1
                     /\ wire' = wire
                ELSE IF r.data = <<>> /\ Len(wire) <= MaxExchanges
                THEN /\ phase' = phase
                     /\ nreads' = nreads
                     /\ wire' = Append(wire, msg \o <<CR>>)
                ELSE /\ phase' = "AwaitingSecondDelimiter"
                     /\ nreads' = nreads + 1
                     /\ wire' = wire
    /\ UNCHANGED <<rev, pc, msg, frame2, nwrites, timer, reply, result,
                   raise_timeout, fcode, apart>>

\* The first read_until and the timeout test after it; when the test does
\* not raise, the timer is restarted.
ReadFirst ==
    /\ phase = "AwaitingFirstDelimiter"
    /\ LET r == ReadUntil(rx)
       IN  \E d \in ReadDurations(rev, r.timedout) :
             /\ rx' = r.rest
             /\ frame1' = r.data
             /\ nreads' = nreads + 1
             /\ IF TimedOut(rev, r.data, raise_timeout, timer + d)
                THEN phase' = "Failed" /\ timer' = timer
                ELSE phase' = "AwaitingSecondDelimiter" /\ timer' = 0
    /\ UNCHANGED <<rev, pc, msg, wire, frame2, nwrites, reply, result,
                   raise_timeout, fcode, apart>>

\* ReadSecond returning the first frame when the second read gave nothing.
ReadSecondFallback ==
    /\ phase = "AwaitingSecondDelimiter"
    /\ LET r == ReadUntil(rx)
       IN  \E d \in ReadDurations(rev, r.timedout) :
             /\ rx' = r.rest
             /\ frame2' = r.data
             /\ nreads' = nreads + 1
             /\ IF TimedOut(rev, r.data, raise_timeout, timer + d)
                THEN phase' = "Failed" /\ reply' = reply
                ELSE /\ phase' = "Complete"
                     /\ reply' = RStrip(IF r.data = <<>> THEN frame1 ELSE r.data,
                                        Chars(REPLY_TERMINATION))
    /\ UNCHANGED <<rev, pc, msg, wire, frame1, nwrites, timer, result,
                   raise_timeout, fcode, apart>>

\* The second read_until, the timeout test after it, and the return of the
\* frame without its line-ending characters.
ReadSecond ==
    /\ phase = "AwaitingSecondDelimiter"
    /\ LET r == ReadUntil(rx)
       IN  \E d \in ReadDurations(rev, r.timedout) :
             /\ rx' = r.rest
             /\ frame2' = r.data
             /\ nreads' = nreads + 1
             /\ IF TimedOut(rev, r.data, raise_timeout, timer + d)
                THEN phase' = "Failed" /\ reply' = reply
                ELSE /\ phase' = "Complete"
                     /\ reply' = RStrip(r.data, Chars(REPLY_TERMINATION))
    /\ UNCHANGED <<rev, pc, msg, wire, frame1, nwrites, timer, result,
                   raise_timeout, fcode, apart>>

\* The outcome of _send as its caller sees it.
SendOutcome ==
    IF phase = "Complete" THEN Value("str", reply)
    ELSE Raised("SerialTimeoutException")

SendOver == phase \in {"Complete", "Failed"}

----------------------------------------------------------------------------
(* StradusLaser.__init__                                                   *)

\* self.ser = Serial(port, **STRADUS_COM_SETUP): the port opens, or Serial
\* raises and no object is constructed.
Open ==
    /\ pc = "Start"
    /\ \E opened \in BOOLEAN :
         IF opened
         THEN pc' = "Opened" /\ result' = result
         ELSE pc' = "Raised"
              /\ result' = Finished("Serial", Raised("SerialException"))
    /\ UNCHANGED <<rev, phase, msg, wire, rx, frame1, frame2, nwrites, nreads,
                   timer, reply, raise_timeout, fcode, apart>>

\* self.ser.reset_input_buffer()
ResetInputBuffer ==
    /\ pc = "Opened"
    /\ rx' = <<>>
    /\ pc' = "Flushed"
    /\ UNCHANGED <<rev, phase, msg, wire, frame1, frame2, nwrites, nreads,
                   timer, reply, result, raise_timeout, fcode, apart>>

\* self._disable_echo(): set(Cmd.Echo, BoolVal.OFF)
DisableEcho ==
    /\ pc = "Flushed"
    /\ pc' = "CtorEcho"
    /\ EnterSend(SetMessage(Cmd(rev).Echo, BoolVal.OFF), TRUE)
    /\ UNCHANGED <<rev, result, fcode, apart>>

\* EchoDone with the timeout of _disable_echo swallowed: the constructor
\* goes on to _disable_prompt whatever the first exchange did.
EchoDoneSwallow ==
    /\ pc = "CtorEcho"
    /\ SendOver
    /\ pc' = "CtorPrompt"
    /\ EnterSend(SetMessage(Cmd(rev).Prompt, BoolVal.OFF), TRUE)
    /\ result' = result
    /\ UNCHANGED <<rev, fcode, apart>>

\* _disable_echo returned or raised; on return self._disable_prompt():
\* set(Cmd.Prompt, BoolVal.OFF).  SerialTimeoutException is re-raised.
EchoDone ==
    /\ pc = "CtorEcho"
    /\ SendOver
    /\ IF phase = "Complete"
       THEN /\ pc' = "CtorPrompt"
            /\ EnterSend(SetMessage(Cmd(rev).Prompt, BoolVal.OFF), TRUE)
            /\ result' = result
       ELSE /\ pc' = "Raised"
            /\ result' = Finished("_disable_echo", SendOutcome)
            /\ LeaveSend
    /\ UNCHANGED <<rev, fcode, apart>>

\* _disable_prompt returned or raised: the constructor returns the driver
\* object, or re-raises SerialTimeoutException.
PromptDone ==
    /\ pc = "CtorPrompt"
    /\ SendOver
    /\ IF phase = "Complete"
       THEN pc' = "Ready"
            /\ result' = Finished("__init__", Value("object", <<>>))
       ELSE pc' = "Raised"
            /\ result' = Finished("_disable_prompt", SendOutcome)
    /\ LeaveSend
    /\ UNCHANGED <<rev, fcode, apart>>

----------------------------------------------------------------------------
(* The calls a user makes on a constructed driver.                         *)

\* The commands, values and queries the user's calls are drawn from.
UserCmds    == {"LaserEmission"}
UserValues  == {BoolVal.OFF, BoolVal.ON}
UserQueries == {"LaserEmission", "FaultCode"}

\* set(cmd, value): return self._send(f"{cmd}={value}")
CallSet ==
    /\ pc = "Ready"
    /\ pc' = "set"
    /\ \E c \in UserCmds, v \in UserValues :
         EnterSend(SetMessage(Cmd(rev)[c], v), TRUE)
    /\ result' = NoResult
    /\ UNCHANGED <<rev, fcode, apart>>

SetReturn ==
    /\ pc = "set"
    /\ SendOver
    /\ result' = Finished("set", SendOutcome)
    /\ pc' = "Ready"
    /\ LeaveSend
    /\ UNCHANGED <<rev, fcode, apart>>

\* get(setting): reply = self._send(setting.value)
CallGet ==
    /\ pc = "Ready"
    /\ pc' = "get"
    /\ \E q \in UserQueries : EnterSend(Query[q], TRUE)
    /\ result' = NoResult
    /\ UNCHANGED <<rev, fcode, apart>>

\* get(setting): return reply.lstrip(...); a timeout passes through.
GetOutcome ==
    IF phase = "Complete" THEN Value("str", GetValue(rev, msg, reply))
    ELSE Raised("SerialTimeoutException")

GetReturn ==
    /\ pc = "get"
    /\ SendOver
    /\ result' = Finished("get", GetOutcome)
    /\ pc' = "Ready"
    /\ LeaveSend
    /\ UNCHANGED <<rev, fcode, apart>>

\* state / get_state: fault_code = int(self.get(Query.FaultCode))
CallState ==
    /\ pc = "Ready"
    /\ pc' = "state"
    /\ EnterSend(Query.FaultCode, TRUE)
    /\ result' = NoResult
    /\ UNCHANGED <<rev, fcode, apart>>

StateReturn ==
    /\ pc = "state"
    /\ SendOver
    /\ result' = Finished("state",
                          IF phase = "Complete"
                          THEN StateAccessor(GetOutcome.val)
                          ELSE GetOutcome)
    /\ pc' = "Ready"
    /\ LeaveSend
    /\ UNCHANGED <<rev, fcode, apart>>

\* faults / get_faults: fault_code = int(self.get(Query.FaultCode))
CallFaults ==
    /\ pc = "Ready"
    /\ pc' = "faults"
    /\ EnterSend(Query.FaultCode, TRUE)
    /\ result' = NoResult
    /\ UNCHANGED <<rev, fcode, apart>>

FaultsReturn ==
    /\ pc = "faults"
    /\ SendOver
    /\ result' = Finished("faults",
                          IF phase = "Complete"
                          THEN FaultsAccessor(rev, GetOutcome.val)
                          ELSE GetOutcome)
    /\ pc' = "Ready"
    /\ LeaveSend
    /\ UNCHANGED <<rev, fcode, apart>>

----------------------------------------------------------------------------
(* The driver on a serial line: construction, calls, and the device.       *)

\* The second caller when it is in no call: the locals of _send and of the
\* get/set around it.
Absent ==
    [pc |-> "Ready", phase |-> "Idle", msg |-> <<>>, frame1 |-> <<>>,
     frame2 |-> <<>>, reply |-> <<>>, result |-> NoResult]

\* functools.cache before the first call of wavelength: no entry.
NoCache == [hit |-> FALSE, val |-> 0]

\* Nothing replied to yet, nothing cached, one caller only.
Quiet ==
    /\ answered = 0
    /\ cache = NoCache
    /\ other = Absent
    /\ serialized = TRUE
    /\ arg = <<>>

Init ==
    /\ rev \in Revisions
    /\ pc = "Start"
    /\ phase = "Idle"
    /\ msg = <<>>
    /\ wire = <<>>
    /\ rx \in StaleInputs
    /\ frame1 = <<>>
    /\ frame2 = <<>>
    /\ nwrites = 0
    /\ nreads = 0
    /\ timer = 0
    /\ reply = <<>>
    /\ result = NoResult
    /\ raise_timeout = TRUE
    /\ fcode = 0
    /\ Quiet

Exchange == Write \/ ReadFirst \/ ReadSecond

Next ==
    \/ Open \/ ResetInputBuffer \/ DisableEcho \/ EchoDone \/ PromptDone
    \/ CallSet \/ SetReturn
    \/ CallGet \/ GetReturn
    \/ CallState \/ StateReturn
    \/ CallFaults \/ FaultsReturn
    \/ Exchange
    \/ DeviceEmit

Spec == Init /\ [][Next]_vars

----------------------------------------------------------------------------
(* The driver answered by a device that replies in full: the state just    *)
(* after the write of a call on a constructed driver, the device's two     *)
(* frames already in the input buffer.                                     *)

\* The writes of the constructor, in order.
SetupWrites(r) ==
    << SetMessage(Cmd(r).Echo, BoolVal.OFF) \o <<CR>>,
       SetMessage(Cmd(r).Prompt, BoolVal.OFF) \o <<CR>> >>

\* The two frames of a reply: an empty one, then the payload.
ReplyFrames(payload) == REPLY_TERMINATION \o payload \o REPLY_TERMINATION

\* The payload the device sends for a query: "{token}={value}" or
\* "{token}= {value}".
QueryReply(token, spaced, value) ==
    token \o (IF spaced THEN <<"=", SP>> ELSE <<"=">>) \o value

AwaitingReply(call, request, payloads) ==
    /\ rev \in Revisions
    /\ pc = call
    /\ phase = "AwaitingFirstDelimiter"
    /\ msg = request
    /\ wire = Append(SetupWrites(rev), request \o <<CR>>)
    /\ rx \in {ReplyFrames(p) : p \in payloads}
    /\ frame1 = <<>>
    /\ frame2 = <<>>
    /\ nwrites = 1
    /\ nreads = 0
    /\ timer = 0
    /\ reply = <<>>
    /\ result = NoResult
    /\ raise_timeout = TRUE
    /\ Quiet

----------------------------------------------------------------------------
(* The fault code: state and faults on every 16-bit code, and on replies   *)
(* that are no number.                                                     *)

FaultCodes == 0..MaxFaultCode

\* The payload of the device's answer to ?FC when its register holds n.
FaultCodeReply(n) == QueryReply(Query.FaultCode, FALSE, IntStr(n))

\* Replies to ?FC that carry no integer.
GarbledFaultReplies ==
    { <<>>,
      Query.FaultCode \o <<"=">>,
      Query.FaultCode \o <<"=", "E", "R", "R">>,
      <<"2", "O">> }

InitFault ==
    /\ \E call \in {"state", "faults"} :
         \/ /\ fcode \in FaultCodes
            /\ AwaitingReply(call, Query.FaultCode, {FaultCodeReply(fcode)})
         \/ /\ fcode = 0
            /\ AwaitingReply(call, Query.FaultCode, GarbledFaultReplies)

NextFault == ReadFirst \/ ReadSecond \/ StateReturn \/ FaultsReturn

SpecFault == InitFault /\ [][NextFault]_vars

----------------------------------------------------------------------------
(* get() on replies with and without the echoed prefix, for every query.   *)

\* All sequences over the set A of length at most n.
Strings(A, n) == UNION {[1..k -> A] : k \in 0..n}

\* The characters the values are built from: the query marker, '=', a
\* space, the first letter of the token, a digit.
ValueChars(token) == {"?", "=", SP, token[2], "4"}

DecodeValues(token) == Strings(ValueChars(token), MaxValueLen)

\* A value behind the echoed prefix in either form, or the bare value.
DecodePayloads(token) ==
    {QueryReply(token, spaced, v) : spaced \in BOOLEAN, v \in DecodeValues(token)}
        \cup DecodeValues(token)

InitDecode ==
    /\ fcode = 0
    /\ \E q \in QueryNames :
         AwaitingReply("get", Query[q], DecodePayloads(Query[q]))

NextDecode == ReadFirst \/ ReadSecond \/ GetReturn

SpecDecode == InitDecode /\ [][NextDecode]_vars

----------------------------------------------------------------------------
(* A device that replies to what it is sent: to every message, in order,   *)
(* an empty frame and a payload frame, at a time of its own.               *)

\* A message as the device received it, without the \r that ends it.
Request(line) == SubSeq(line, 1, Len(line) - 1)

IsQuery(m) == m # <<>> /\ Head(m) = "?"

\* The wavelength the device reports.
DeviceWavelength == <<"4", "0", "5">>

\* The values of the commands "{token}={value}" among the first n messages
\* on the wire, in order.
RECURSIVE Commanded(_, _)
Commanded(token, n) ==
    IF n = 0 THEN <<>>
    ELSE LET m      == Request(wire[n])
             prefix == token \o <<"=">>
         IN  IF IsPrefix(prefix, m)
             THEN Append(Commanded(token, n - 1),
                         SubSeq(m, Len(prefix) + 1, Len(m)))
             ELSE Commanded(token, n - 1)

\* What the device may hold in the register a query asks for: the fault
\* code, the wavelength, else the value last commanded, else 0 or 1.
RegisterValues(q) ==
    IF q = Query.FaultCode THEN {IntStr(fcode)}
    ELSE IF q = Query.LaserWavelength THEN {DeviceWavelength}
    ELSE LET set == Commanded(Tail(q), answered)
         IN  IF set # <<>> THEN {set[Len(set)]}
             ELSE {BoolVal.OFF, BoolVal.ON}

\* The payload frames the device may send in reply to the message m: to a
\* query "{token}={value}", to a command nothing or the command itself.
DevicePayloads(m) ==
    IF IsQuery(m)
    THEN {QueryReply(m, FALSE, v) : v \in RegisterValues(m)}
    ELSE {<<>>, m}

\* The device replies to the oldest message it has not replied to.
DeviceAnswer ==
    /\ answered < Len(wire)
    /\ \E payload \in DevicePayloads(Request(wire[answered + 1])) :
         rx' = rx \o ReplyFrames(payload)
    /\ answered' = answered + 1
    /\ UNCHANGED <<rev, pc, phase, msg, wire, frame1, frame2, nwrites, nreads,
                   timer, reply, result, raise_timeout, fcode, cache, other,
                   serialized, arg>>

----------------------------------------------------------------------------
(* The facade of src/stradus.py on top of get and set.                     *)

\* wavelength, a cached property: functools.cache holds the value.
WavelengthCached ==
    /\ pc = "Ready"
    /\ rev = "stradus"
    /\ cache.hit
    /\ result' = Finished("wavelength", Value("int", cache.val))
    /\ UNCHANGED <<rev, pc, phase, msg, wire, rx, frame1, frame2, nwrites,
                   nreads, timer, reply, raise_timeout, fcode, apart>>

\* wavelength, not cached yet: int(self.get(Query.LaserWavelength))
CallWavelength ==
    /\ pc = "Ready"
    /\ rev = "stradus"
    /\ ~cache.hit
    /\ pc' = "wavelength"
    /\ EnterSend(Query.LaserWavelength, TRUE)
    /\ result' = NoResult
    /\ UNCHANGED <<rev, fcode, apart>>

\* int() of the text get() returned: the number, or ValueError.
IntOutcome(text) ==
    LET n == PyInt(text)
    IN  IF n.ok THEN Value("int", n.val) ELSE Raised("ValueError")

\* WavelengthReturn with a cache that also keeps a failed access, as 0.
WavelengthReturnKeepsFailure ==
    /\ pc = "wavelength"
    /\ SendOver
    /\ LET out == IF phase = "Complete" THEN IntOutcome(GetOutcome.val)
                  ELSE GetOutcome
       IN  /\ result' = Finished("wavelength", out)
           /\ cache' = [hit |-> TRUE,
                        val |-> IF out.kind = "int" THEN out.val ELSE 0]
    /\ pc' = "Ready"
    /\ LeaveSend
    /\ UNCHANGED <<rev, fcode, answered, other, serialized, arg>>

\* wavelength returns, and functools.cache keeps what was returned; an
\* exception is not cached.
WavelengthReturn ==
    /\ pc = "wavelength"
    /\ SendOver
    /\ LET out == IF phase = "Complete" THEN IntOutcome(GetOutcome.val)
                  ELSE GetOutcome
       IN  /\ result' = Finished("wavelength", out)
           /\ cache' = IF out.kind = "int" THEN [hit |-> TRUE, val |-> out.val]
                       ELSE cache
    /\ pc' = "Ready"
    /\ LeaveSend
    /\ UNCHANGED <<rev, fcode, answered, other, serialized, arg>>

\* enable(): self.set(Cmd.LaserEmission, BoolVal.ON)
CallEnable ==
    /\ pc = "Ready"
    /\ pc' = "enable"
    /\ EnterSend(SetMessage(Cmd(rev).LaserEmission, BoolVal.ON), TRUE)
    /\ result' = NoResult
    /\ UNCHANGED <<rev, fcode, apart>>

\* disable() passing BoolVal.ON.
CallDisableOn ==
    /\ pc = "Ready"
    /\ pc' = "disable"
    /\ EnterSend(SetMessage(Cmd(rev).LaserEmission, BoolVal.ON), TRUE)
    /\ result' = NoResult
    /\ UNCHANGED <<rev, fcode, apart>>

\* disable(): self.set(Cmd.LaserEmission, BoolVal.OFF)
CallDisable ==
    /\ pc = "Ready"
    /\ pc' = "disable"
    /\ EnterSend(SetMessage(Cmd(rev).LaserEmission, BoolVal.OFF), TRUE)
    /\ result' = NoResult
    /\ UNCHANGED <<rev, fcode, apart>>

\* enable() / disable() return None (what set returned is dropped), or the
\* timeout of _send passes through.
EmissionReturn ==
    /\ pc \in {"enable", "disable"}
    /\ SendOver
    /\ result' = Finished(pc, IF phase = "Complete" THEN Value("None", <<>>)
                              ELSE SendOutcome)
    /\ pc' = "Ready"
    /\ LeaveSend
    /\ UNCHANGED <<rev, fcode, apart>>

\* BoolVal(text): the member with that value, or ValueError.
BoolValOf(text) ==
    IF \E n \in DOMAIN BoolVal : BoolVal[n] = text
    THEN Value("BoolVal", CHOOSE n \in DOMAIN BoolVal : BoolVal[n] = text)
    ELSE Raised("ValueError")

\* bool(member): BoolVal.__bool__ in src/stradus.py (value == "1"); the
\* BoolVal of src/vortran_laser/stradus.py defines none, and a member, being
\* a str, is true when its value is not empty.
BoolValTruth(r, member) ==
    IF r = "stradus" THEN BoolVal[member] = <<"1">> ELSE BoolVal[member] # <<>>

\* True if BoolVal(text) else False
TruthOutcome(r, text) ==
    LET b == BoolValOf(text)
    IN  IF b.kind = "BoolVal" THEN Value("bool", BoolValTruth(r, b.val)) ELSE b

\* interlock_is_closed: BoolVal(self.get(Query.InterlockStatus))
CallInterlock ==
    /\ pc = "Ready"
    /\ rev = "stradus"
    /\ pc' = "interlock_is_closed"
    /\ EnterSend(Query.InterlockStatus, TRUE)
    /\ result' = NoResult
    /\ UNCHANGED <<rev, fcode, apart>>

\* laser_is_emitting: BoolVal(self.get(Query.LaserEmission))
CallEmitting ==
    /\ pc = "Ready"
    /\ rev = "stradus"
    /\ pc' = "laser_is_emitting"
    /\ EnterSend(Query.LaserEmission, TRUE)
    /\ result' = NoResult
    /\ UNCHANGED <<rev, fcode, apart>>

\* interlock_is_closed / laser_is_emitting return True or False, or raise.
TruthReturn ==
    /\ pc \in {"interlock_is_closed", "laser_is_emitting"}
    /\ SendOver
    /\ result' = Finished(pc, IF phase = "Complete"
                              THEN TruthOutcome(rev, GetOutcome.val)
                              ELSE GetOutcome)
    /\ pc' = "Ready"
    /\ LeaveSend
    /\ UNCHANGED <<rev, fcode, apart>>

\* The power values a caller sets, as f"{value}" renders them.
PowerValues == {<<"2", "5">>, <<"0", ".", "5">>}

\* A call in progress raises what _send raised.
RaiseFrom(call) ==
    /\ result' = Finished(call, SendOutcome)
    /\ pc' = "Ready"
    /\ LeaveSend

\* power_setpoint = value: first self.get(Query.PulseMode)
CallPowerSetpoint ==
    /\ pc = "Ready"
    /\ rev = "stradus"
    /\ pc' = "power_setpoint"
    /\ \E v \in PowerValues : arg' = v
    /\ EnterSend(Query.PulseMode, TRUE)
    /\ result' = NoResult
    /\ UNCHANGED <<rev, fcode, answered, cache, other, serialized>>

\* power_setpoint = value: the branch on the pulse mode, set(Cmd.PulsePower,
\* value) if get returned '1', else set(Cmd.LaserPower, value).
PowerSetpointBranch ==
    /\ pc = "power_setpoint"
    /\ SendOver
    /\ IF phase = "Complete"
       THEN /\ pc' = "power_setpoint.branch"
            /\ EnterSend(SetMessage(IF GetOutcome.val = <<"1">>
                                    THEN Cmd(rev).PulsePower
                                    ELSE Cmd(rev).LaserPower, arg), TRUE)
            /\ result' = result
       ELSE RaiseFrom("power_setpoint")
    /\ UNCHANGED <<rev, fcode, apart>>

\* power_setpoint = value: after the branch, self.set(Cmd.LaserPower, value)
PowerSetpointLast ==
    /\ pc = "power_setpoint.branch"
    /\ SendOver
    /\ IF phase = "Complete"
       THEN /\ pc' = "power_setpoint.last"
            /\ EnterSend(SetMessage(Cmd(rev).LaserPower, arg), TRUE)
            /\ result' = result
       ELSE RaiseFrom("power_setpoint")
    /\ UNCHANGED <<rev, fcode, apart>>

\* power_setpoint = value is over.
PowerSetpointReturn ==
    /\ pc = "power_setpoint.last"
    /\ SendOver
    /\ result' = Finished("power_setpoint",
                          IF phase = "Complete" THEN Value("None", <<>>)
                          ELSE SendOutcome)
    /\ pc' = "Ready"
    /\ LeaveSend
    /\ UNCHANGED <<rev, fcode, apart>>

\* A constructed driver: both setup exchanges are behind it and their
\* replies consumed; wire and answered count from here.
Constructed ==
    /\ rev \in Revisions
    /\ pc = "Ready"
    /\ phase = "Idle"
    /\ msg = SetMessage(Cmd(rev).Prompt, BoolVal.OFF)
    /\ wire = <<>>
    /\ rx = <<>>
    /\ frame1 = REPLY_TERMINATION
    /\ frame2 = REPLY_TERMINATION
    /\ nwrites = 1
    /\ nreads = 2
    /\ timer = 0
    /\ reply = <<>>
    /\ result = Finished("__init__", Value("object", <<>>))
    /\ raise_timeout = TRUE
    /\ fcode = 0

InitReady == Constructed /\ Quiet

NextReady ==
    \/ CallGet \/ GetReturn
    \/ CallEnable \/ CallDisable \/ EmissionReturn
    \/ CallWavelength \/ WavelengthCached \/ WavelengthReturn
    \/ CallPowerSetpoint \/ PowerSetpointBranch \/ PowerSetpointLast
    \/ PowerSetpointReturn
    \/ Exchange
    \/ DeviceAnswer

SpecReady == InitReady /\ [][NextReady]_vars

----------------------------------------------------------------------------
(* Two callers on one connection.  The second caller runs get() through    *)
(* the same _send on the same port; its locals are the fields of other.    *)
(* The device here replies within the read timeout: a read finds a         *)
(* terminator in the buffer.                                               *)

\* The query the second caller asks, one the first caller does not.
OtherQuery == Query.LaserWavelength

\* A terminator is in the input buffer: read_until returns a whole frame.
Timely == FindTerm(rx, 1) > 0

\* The application's lock, where it uses one: a call begins only when no
\* other call is in progress.
LockFree == serialized => (pc = "Ready" /\ other.pc = "Ready")

\* The second caller's get() that takes no notice of the lock.
OtherCallUnguarded ==
    /\ other.pc = "Ready"
    /\ Len(wire) < MaxExchanges
    /\ other' = [Absent EXCEPT !.pc = "get", !.phase = "Sending",
                               !.msg = OtherQuery]
    /\ UNCHANGED <<rev, pc, phase, msg, wire, rx, frame1, frame2, nwrites,
                   nreads, timer, reply, result, raise_timeout, fcode,
                   answered, cache, serialized, arg>>

\* The second caller enters get(OtherQuery) and with it _send.
OtherCall ==
    /\ LockFree
    /\ other.pc = "Ready"
    /\ Len(wire) < MaxExchanges
    /\ other' = [Absent EXCEPT !.pc = "get", !.phase = "Sending",
                               !.msg = OtherQuery]
    /\ UNCHANGED <<rev, pc, phase, msg, wire, rx, frame1, frame2, nwrites,
                   nreads, timer, reply, result, raise_timeout, fcode,
                   answered, cache, serialized, arg>>

\* The second caller's write.
OtherWrite ==
    /\ other.phase = "Sending"
    /\ wire' = Append(wire, other.msg \o <<CR>>)
    /\ other' = [other EXCEPT !.phase = "AwaitingFirstDelimiter"]
    /\ UNCHANGED <<rev, pc, phase, msg, rx, frame1, frame2, nwrites, nreads,
                   timer, reply, result, raise_timeout, fcode, answered,
                   cache, serialized, arg>>

\* The second caller's first read_until and the test after it.
OtherReadFirst ==
    /\ other.phase = "AwaitingFirstDelimiter"
    /\ Timely
    /\ LET r == ReadUntil(rx)
       IN  \E d \in ReadDurations(rev, r.timedout) :
             /\ rx' = r.rest
             /\ other' = [other EXCEPT
                            !.frame1 = r.data,
                            !.phase = IF TimedOut(rev, r.data, TRUE, d)
                                      THEN "Failed"
                                      ELSE "AwaitingSecondDelimiter"]
    /\ UNCHANGED <<rev, pc, phase, msg, wire, frame1, frame2, nwrites, nreads,
                   timer, reply, result, raise_timeout, fcode, answered,
                   cache, serialized, arg>>

\* The second caller's second read_until, the test, and the return value.
OtherReadSecond ==
    /\ other.phase = "AwaitingSecondDelimiter"
    /\ Timely
    /\ LET r == ReadUntil(rx)
       IN  \E d \in ReadDurations(rev, r.timedout) :
             /\ rx' = r.rest
             /\ other' = IF TimedOut(rev, r.data, TRUE, d)
                         THEN [other EXCEPT !.frame2 = r.data,
                                            !.phase = "Failed"]
                         ELSE [other EXCEPT
                                 !.frame2 = r.data,
                                 !.phase = "Complete",
                                 !.reply = RStrip(r.data, Chars(REPLY_TERMINATION))]
    /\ UNCHANGED <<rev, pc, phase, msg, wire, frame1, frame2, nwrites, nreads,
                   timer, reply, result, raise_timeout, fcode, answered,
                   cache, serialized, arg>>

\* The second caller's get() returns.
OtherReturn ==
    /\ other.pc = "get"
    /\ other.phase \in {"Complete", "Failed"}
    /\ other' = [other EXCEPT
                   !.pc = "Ready",
                   !.phase = "Idle",
                   !.result = Finished("get",
                       IF other.phase = "Complete"
                       THEN Value("str", GetValue(rev, other.msg, other.reply))
                       ELSE Raised("SerialTimeoutException"))]
    /\ UNCHANGED <<rev, pc, phase, msg, wire, rx, frame1, frame2, nwrites,
                   nreads, timer, reply, result, raise_timeout, fcode,
                   answered, cache, serialized, arg>>

\* The first caller's get(), begun when the lock (if any) allows.
LockedCallGet == LockFree /\ CallGet

\* The first caller's reads, the device replying in time.
TimelyReadFirst == Timely /\ ReadFirst
TimelyReadSecond == Timely /\ ReadSecond

\* A constructed driver shared by two callers, with or without a lock.
InitShared ==
    /\ Constructed
    /\ answered = 0
    /\ cache = NoCache
    /\ other = Absent
    /\ serialized \in BOOLEAN
    /\ arg = <<>>

NextShared ==
    \/ LockedCallGet \/ Write \/ TimelyReadFirst \/ TimelyReadSecond
    \/ GetReturn
    \/ OtherCall \/ OtherWrite \/ OtherReadFirst \/ OtherReadSecond
    \/ OtherReturn
    \/ DeviceAnswer

SpecShared == InitShared /\ [][NextShared]_vars

----------------------------------------------------------------------------
(* One caller's get and set on a constructed driver, the device replying   *)
(* when it likes.  The caller's thread runs and read_until returns when    *)
(* its timeout expires at the latest: a pending write or read happens.     *)

NextCalls ==
    \/ CallGet \/ GetReturn
    \/ CallSet \/ SetReturn
    \/ Exchange
    \/ DeviceAnswer

SpecCalls ==
    /\ InitReady
    /\ [][NextCalls]_vars
    /\ WF_vars(Write)
    /\ WF_vars(ReadFirst)
    /\ WF_vars(ReadSecond)

----------------------------------------------------------------------------
(* BoolVal and its truth value: the two accessors of src/stradus.py that   *)
(* take it, and bool(BoolVal(...)) as an application of either revision    *)
(* takes it, on replies of every kind.                                     *)

\* The characters the replies to a status query are built from.
StatusChars == {"0", "1", "2"}

\* Replies to a status query: a short value, bare or behind the echoed
\* prefix in either form.
StatusPayloads(token) ==
    LET values == Strings(StatusChars, MaxValueLen)
    IN  values \cup {QueryReply(token, spaced, v) :
                        spaced \in BOOLEAN, v \in values}

\* bool(BoolVal(self.get(Query.LaserEmission))) returns or raises.
BoolReturn ==
    /\ pc = "bool"
    /\ SendOver
    /\ result' = Finished("bool", IF phase = "Complete"
                                  THEN TruthOutcome(rev, GetOutcome.val)
                                  ELSE GetOutcome)
    /\ pc' = "Ready"
    /\ LeaveSend
    /\ UNCHANGED <<rev, fcode, apart>>

InitBool ==
    /\ fcode = 0
    /\ \/ /\ rev = "stradus"
          /\ AwaitingReply("interlock_is_closed", Query.InterlockStatus,
                           StatusPayloads(Query.InterlockStatus))
       \/ /\ rev = "stradus"
          /\ AwaitingReply("laser_is_emitting", Query.LaserEmission,
                           StatusPayloads(Query.LaserEmission))
       \/ AwaitingReply("bool", Query.LaserEmission,
                        StatusPayloads(Query.LaserEmission))

NextBool == ReadFirst \/ ReadSecond \/ TruthReturn \/ BoolReturn

SpecBool == InitBool /\ [][NextBool]_vars

----------------------------------------------------------------------------
(* The pulse power set and read back: set(Cmd.PulsePower, v) and           *)
(* get(Query.PulsePower) on a constructed driver.                          *)

\* set(Cmd.PulsePower, v), v rendered by the f-string of set().
CallSetPower ==
    /\ pc = "Ready"
    /\ pc' = "set"
    /\ \E v \in PowerValues :
         /\ arg' = v
         /\ EnterSend(SetMessage(Cmd(rev).PulsePower, v), TRUE)
    /\ result' = NoResult
    /\ UNCHANGED <<rev, fcode, answered, cache, other, serialized>>

\* get(Query.PulsePower)
CallGetPower ==
    /\ pc = "Ready"
    /\ pc' = "get"
    /\ EnterSend(Query.PulsePower, TRUE)
    /\ result' = NoResult
    /\ UNCHANGED <<rev, fcode, apart>>

NextRound ==
    \/ CallSetPower \/ SetReturn
    \/ CallGetPower \/ GetReturn
    \/ Exchange
    \/ DeviceAnswer

SpecRound == InitReady /\ [][NextRound]_vars

----------------------------------------------------------------------------
(* The setters of digital_modulation and constant_current (src/stradus.py). *)
(* The value is a BoolVal member or the name of one; arg holds the member's *)
(* text.                                                                    *)

\* A getter's BoolVal(self.get(...)) inside a setter, once get is over: the
\* member, ValueError, or the timeout of _send.
MemberOutcome ==
    IF phase = "Complete" THEN BoolValOf(GetOutcome.val) ELSE GetOutcome

\* A setter in progress ends with the outcome out.
EndWith(call, out) ==
    /\ result' = Finished(call, out)
    /\ pc' = "Ready"
    /\ LeaveSend

\* digital_modulation = value: the constant_current getter's query first.
CallDigitalModulation ==
    /\ pc = "Ready"
    /\ rev = "stradus"
    /\ pc' = "digital_modulation"
    /\ \E v \in UserValues : arg' = v
    /\ EnterSend(Query.LaserDriverControlMode, TRUE)
    /\ result' = NoResult
    /\ UNCHANGED <<rev, fcode, answered, cache, other, serialized>>

\* The digital_modulation setter without the test of the drive mode: the
\* set follows whatever member the getter gave.
DigitalModulationUntested ==
    /\ pc = "digital_modulation"
    /\ SendOver
    /\ LET mode == MemberOutcome
       IN  IF mode.kind # "BoolVal" THEN EndWith("digital_modulation", mode)
           ELSE /\ pc' = "digital_modulation.set"
                /\ EnterSend(SetMessage(Cmd(rev).PulseMode, arg), TRUE)
                /\ result' = result
    /\ UNCHANGED <<rev, fcode, apart>>

\* digital_modulation = value: in constant power mode (OFF) the warning and
\* nothing else, otherwise self.set(Cmd.PulseMode, value).
DigitalModulationBranch ==
    /\ pc = "digital_modulation"
    /\ SendOver
    /\ LET mode == MemberOutcome
       IN  IF mode.kind # "BoolVal" THEN EndWith("digital_modulation", mode)
           ELSE IF mode.val = "OFF"
           THEN EndWith("digital_modulation", Value("None", <<>>))
           ELSE /\ pc' = "digital_modulation.set"
                /\ EnterSend(SetMessage(Cmd(rev).PulseMode, arg), TRUE)
                /\ result' = result
    /\ UNCHANGED <<rev, fcode, apart>>

\* constant_current = value: "value == BoolVal.OFF and ..." reads the
\* digital_modulation getter only when value is OFF; with ON the set follows
\* at once.
CallConstantCurrent ==
    /\ pc = "Ready"
    /\ rev = "stradus"
    /\ \E v \in UserValues :
         /\ arg' = v
         /\ IF v = BoolVal.OFF
            THEN /\ pc' = "constant_current"
                 /\ EnterSend(Query.PulseMode, TRUE)
            ELSE /\ pc' = "constant_current.set"
                 /\ EnterSend(SetMessage(Cmd(rev).LaserDriverControlMode, v),
                              TRUE)
    /\ result' = NoResult
    /\ UNCHANGED <<rev, fcode, answered, cache, other, serialized>>

\* constant_current = OFF: after the getter (a warning if it gave ON),
\* self.set(Cmd.LaserDriverControlMode, value); the getter's exception
\* ends the setter.
ConstantCurrentBranch ==
    /\ pc = "constant_current"
    /\ SendOver
    /\ LET mode == MemberOutcome
       IN  IF mode.kind # "BoolVal" THEN EndWith("constant_current", mode)
           ELSE /\ pc' = "constant_current.set"
                /\ EnterSend(SetMessage(Cmd(rev).LaserDriverControlMode, arg),
                             TRUE)
                /\ result' = result
    /\ UNCHANGED <<rev, fcode, apart>>

\* The set of either setter is over: None, or the timeout of _send.
ModeSetReturn ==
    /\ pc \in {"digital_modulation.set", "constant_current.set"}
    /\ SendOver
    /\ EndWith(IF pc = "digital_modulation.set" THEN "digital_modulation"
               ELSE "constant_current",
               IF phase = "Complete" THEN Value("None", <<>>) ELSE SendOutcome)
    /\ UNCHANGED <<rev, fcode, apart>>

NextModes ==
    \/ CallDigitalModulation \/ DigitalModulationBranch
    \/ CallConstantCurrent \/ ConstantCurrentBranch
    \/ ModeSetReturn
    \/ Exchange
    \/ DeviceAnswer

InitModes == InitReady /\ rev = "stradus"

SpecModes == InitModes /\ [][NextModes]_vars

----------------------------------------------------------------------------
(* _send called directly, with raise_timeout given by the caller.          *)

\* The messages passed to _send.
SendMessages ==
    {Query.FaultCode, SetMessage(Cmd(rev).LaserEmission, BoolVal.ON)}

\* _send(msg, raise_timeout)
CallSend ==
    /\ pc = "Ready"
    /\ pc' = "_send"
    /\ \E m \in SendMessages, strict \in BOOLEAN : EnterSend(m, strict)
    /\ result' = NoResult
    /\ UNCHANGED <<rev, fcode, apart>>

\* _send returns the reply text or raises SerialTimeoutException.
SendReturn ==
    /\ pc = "_send"
    /\ SendOver
    /\ result' = Finished("_send", SendOutcome)
    /\ pc' = "Ready"
    /\ LeaveSend
    /\ UNCHANGED <<rev, fcode, apart>>

NextSend == CallSend \/ SendReturn \/ Exchange \/ DeviceAnswer

SpecSend == InitReady /\ [][NextSend]_vars

----------------------------------------------------------------------------
(* Properties.                                                             *)

EndsWithTerminator(f) ==
    Len(f) >= 2 /\ f[Len(f) - 1] = CR /\ f[Len(f)] = LF

TimeoutRaised == result.kind = "SerialTimeoutException"

\* C1: a set call (raise_timeout left at its default) to which the device
\* sends no byte in either read window fails with SerialTimeoutException;
\* it never returns the empty string, whatever perf_counter measured.
C1SilentDeviceTimesOut ==
    (pc = "Ready" /\ result.call = "set" /\ frame1 = <<>> /\ frame2 = <<>>)
        => TimeoutRaised

\* Bit i of the number n.
Bit(n, i) == (n \div (2^i)) % 2

\* The positions 1..15 of the fault code that are set.
FaultBits(n) == {i \in 1..(FaultCodeBits - 1) : Bit(n, i) = 1}

\* The call answered a well-formed fault-code reply for the register fcode.
AnsweredFaultCode(call) ==
    pc = "Ready" /\ result.call = call /\ reply = FaultCodeReply(fcode)

\* C2: for every fault code in 0..65535 the fault list has as many entries
\* as there are set bits among positions 1..15 of the code: all set bits are
\* reported, not only the first.
C2AllFaultBitsReported ==
    AnsweredFaultCode("faults")
        => /\ result.kind = "list"
           /\ Len(result.val) = Cardinality(FaultBits(fcode))

\* What state / get_state is to return for the fault code n.
ExpectedState(n) ==
    CASE n = 0 -> "LASER_EMISSION_ACTIVE"
      [] n = 1 -> "STANDBY"
      [] n = 2 -> "WARMUP"
      [] n >= 3 -> "FAULT"

Readings(token, text) ==
    {SubSeq(text, Len(p) + 1, Len(text)) :
        p \in {q \in {QueryReply(token, FALSE, <<>>), QueryReply(token, TRUE, <<>>)} :
                 IsPrefix(q, text)}}

GetReturned == pc = "Ready" /\ result.call = "get" /\ result.kind = "str"

\* C4: get() on a payload "{token}={value}" or "{token}= {value}" returns
\* exactly value, nothing beyond the echoed prefix being removed, also when
\* value begins with characters that occur in the token.
C4GetReturnsExactValue ==
    (GetReturned /\ Readings(msg, reply) # {})
        => result.val \in Readings(msg, reply)

\* A read returned bytes that do not end in the terminator \r\n.
Unterminated(frame) == frame # <<>> /\ ~EndsWithTerminator(frame)

\* C5: with raise_timeout on, a get or set in which a read phase ended
\* without the terminator \r\n fails with SerialTimeoutException and
\* returns no partial frame as a reply; stated for the case of some bytes
\* and no terminator (the case of no bytes at all is C1).
C5NoTerminatorTimesOut ==
    (/\ pc = "Ready"
     /\ result.call \in {"get", "set"}
     /\ raise_timeout
     /\ Unterminated(frame1) \/ Unterminated(frame2))
        => TimeoutRaised

\* C6: when the reply to ?FC is no integer, state and faults both raise;
\* neither returns a value in place of the failure.
C6GarbledFaultCodeRaises ==
    (/\ pc = "Ready"
     /\ result.call \in {"state", "faults"}
     /\ reply \in GarbledFaultReplies)
        => result.kind \in Exceptions

CtorSteps == {"Start", "Opened", "Flushed", "CtorEcho", "CtorPrompt"}

\* C7, what holds in every state: nothing is written before the port is
\* open and its input buffer reset; the first write is ECHO=0 and the second
\* PROMPT=0; a third write exists only once the constructor has returned the
\* object; a constructor that raised wrote at most the setup commands, and
\* only ECHO=0 when it was _disable_echo that failed.
C7Order ==
    /\ pc \in {"Start", "Opened", "Flushed"} => wire = <<>>
    /\ pc = "Flushed" => rx = <<>>
    /\ IsPrefix(wire, SetupWrites(rev)) \/ IsPrefix(SetupWrites(rev), wire)
    /\ pc = "CtorEcho" => Len(wire) <= 1
    /\ pc = "CtorPrompt" => Len(wire) \in {1, 2}
    /\ Len(wire) > 2 => pc \notin CtorSteps \cup {"Raised"}
    /\ pc \notin CtorSteps \cup {"Raised"} => Len(wire) >= 2
    /\ pc = "Raised"
         => /\ result.kind \in Exceptions
            /\ result.call = "Serial" => wire = <<>>
            /\ result.call = "_disable_echo" => Len(wire) = 1
            /\ result.call = "_disable_prompt" => Len(wire) = 2

\* C7, what holds of every step: the buffer is reset right after the port
\* opens; PROMPT=0 is entered only from a completed ECHO=0 exchange; a setup
\* exchange that failed makes the constructor raise the timeout without
\* another write; the object is returned only from a completed PROMPT=0
\* exchange; a constructor that raised does nothing more.
C7Step ==
    /\ pc = "Opened" => pc' = "Flushed" /\ rx' = <<>>
    /\ (pc' = "CtorPrompt" /\ pc # "CtorPrompt")
         => pc = "CtorEcho" /\ phase = "Complete"
    /\ (pc \in {"CtorEcho", "CtorPrompt"} /\ phase = "Failed")
         => /\ pc' = "Raised"
            /\ wire' = wire
            /\ result'.kind = "SerialTimeoutException"
    /\ (pc \in CtorSteps /\ pc' = "Ready")
         => pc = "CtorPrompt" /\ phase = "Complete"
    /\ pc = "Raised" => pc' = "Raised" /\ wire' = wire

\* C7: construction opens the port, resets the input buffer, exchanges
\* ECHO=0 and then PROMPT=0; no other exchange is written before both have
\* completed, PROMPT=0 is never sent after ECHO=0 failed, and a setup
\* exchange that times out makes the constructor raise, no object returned.
C7ConstructionOrder == []C7Order /\ [][C7Step]_vars

\* C7's case: both setup commands on the wire in order, the second timed
\* out, and the constructor raised.
C7Witness ==
    /\ pc = "Raised"
    /\ result.call = "_disable_prompt"
    /\ TimeoutRaised
    /\ wire = SetupWrites(rev)

\* The steps an exchange may take from one phase to the next.
PhaseSteps ==
    { <<"Idle", "Sending">>,
      <<"Sending", "AwaitingFirstDelimiter">>,
      <<"AwaitingFirstDelimiter", "AwaitingSecondDelimiter">>,
      <<"AwaitingFirstDelimiter", "Failed">>,
      <<"AwaitingSecondDelimiter", "Complete">>,
      <<"AwaitingSecondDelimiter", "Failed">>,
      <<"Complete", "Idle">>, <<"Failed", "Idle">>,
      <<"Complete", "Sending">> }

\* C8, the writes and reads each phase has behind it: none while Sending;
\* one write of "{payload}\r" and no read while awaiting the first
\* terminator; one read, and the timer restarted, while awaiting the
\* second; two reads when Complete; one or two when Failed, and after a
\* failure of the first phase no second frame.
C8Counts ==
    /\ phase \in Phases
    /\ phase = "Sending" => nwrites = 0 /\ nreads = 0
    /\ phase = "AwaitingFirstDelimiter"
         => /\ nwrites = 1 /\ nreads = 0 /\ timer = 0
            /\ wire # <<>> /\ wire[Len(wire)] = msg \o <<CR>>
    /\ phase = "AwaitingSecondDelimiter"
         => nwrites = 1 /\ nreads = 1 /\ timer = 0
    /\ phase = "Complete" => nwrites = 1 /\ nreads = 2
    /\ phase = "Failed"
         => /\ nwrites = 1 /\ nreads \in {1, 2}
            /\ nreads = 1 => frame1 = <<>> /\ frame2 = <<>>
            /\ nreads = 2 => frame2 = <<>>

\* C8, every step: the phases follow the state machine; a write happens
\* only on leaving Sending and appends "{payload}\r"; a read happens only
\* on leaving one of the two awaiting phases.
C8Step ==
    /\ phase' # phase => <<phase, phase'>> \in PhaseSteps
    /\ wire' # wire
         => /\ phase = "Sending" /\ phase' = "AwaitingFirstDelimiter"
            /\ wire' = Append(wire, msg \o <<CR>>)
    /\ (nreads' # nreads /\ phase' # "Sending")
         => /\ phase \in {"AwaitingFirstDelimiter", "AwaitingSecondDelimiter"}
            /\ nreads' = nreads + 1

\* text is frame with every trailing \r and \n removed.
IsRightTrimmed(frame, text) ==
    /\ IsPrefix(text, frame)
    /\ \A i \in (Len(text) + 1)..Len(frame) : frame[i] \in {CR, LF}
    /\ text = <<>> \/ text[Len(text)] \notin {CR, LF}

\* frame without the \r\n that ends it.
WithoutTerminator(frame) == SubSeq(frame, 1, Len(frame) - 2)

\* C8, the returned text as _send computes it: every exchange follows
\* Idle -> Sending -> AwaitingFirstDelimiter -> AwaitingSecondDelimiter ->
\* Complete/Failed with one write first, then the first read, then (only if the first phase did
\* not fail) the second read with the timer restarted; the text returned is
\* the second frame with every trailing \r and \n removed.
C8ExchangeStateMachine ==
    /\ [](C8Counts /\ (phase = "Complete" => IsRightTrimmed(frame2, reply)))
    /\ [][C8Step]_vars

\* C8's case: a completed exchange whose second frame carries a carriage
\* return before its terminator.
C8Witness ==
    /\ phase = "Complete"
    /\ nreads = 2
    /\ EndsWithTerminator(frame2)
    /\ Len(frame2) > 2
    /\ frame2[Len(frame2) - 2] = CR

\* C8, the returned text read to the letter: the phases' writes and reads
\* as above, and the text returned is the second frame with its trailing
\* \r\n, and nothing else, removed (read for the frames that end in \r\n).
C8ReturnsFrameWithoutTerminator ==
    /\ C8Counts
    /\ (phase = "Complete" /\ EndsWithTerminator(frame2))
         => reply = WithoutTerminator(frame2)

\* C9: when the payload does not start with the echoed prefix "{token}=",
\* get() returns the payload unchanged.
C9NoPrefixUnchanged ==
    (GetReturned /\ ~IsPrefix(QueryReply(msg, FALSE, <<>>), reply))
        => result.val = reply

\* The names a sequence of fault names holds.
Names(list) == {list[i] : i \in 1..Len(list)}

\* C10: faults reports the FaultCodeField entry at table position i
\* (1..15) if and only if bit i of the fault code is set, and never the
\* entry at position 0; on the reply "?FC=20" the list is exactly
\* WARMUP, INVALID_COMMAND and the state is FAULT.
C10FaultsByTablePosition ==
    /\ (rev = "stradus" /\ AnsweredFaultCode("faults"))
         => /\ result.kind = "list"
            /\ Names(result.val) = {FaultCodeField[i + 1].name : i \in FaultBits(fcode)}
            /\ Len(result.val) = Cardinality(FaultBits(fcode))
            /\ fcode = 20 => Names(result.val) = {"WARMUP", "INVALID_COMMAND"}
    /\ (rev = "stradus" /\ AnsweredFaultCode("state") /\ fcode = 20)
         => result.kind = "state" /\ result.val = "FAULT"

\* The two frames with which the device answers a wavelength query.
WavelengthFrames ==
    /\ frame1 = REPLY_TERMINATION
    /\ frame2 = QueryReply(Query.LaserWavelength, FALSE, DeviceWavelength)
                    \o REPLY_TERMINATION

\* C11: when the device answers the wavelength query with the frames "\r\n"
\* and "?LW=405\r\n", the driver has written "?LW\r", the get() inside the
\* accessor returns the string "405" and wavelength returns the integer 405.
C11WavelengthEndToEnd ==
    /\ (pc = "wavelength" /\ nwrites = 1)
         => wire[Len(wire)] = <<"?", "L", "W", CR>>
    /\ (pc = "wavelength" /\ phase = "Complete" /\ WavelengthFrames)
         => GetOutcome = Value("str", <<"4", "0", "5">>)
    /\ (pc = "Ready" /\ result.call = "wavelength" /\ WavelengthFrames)
         => result.kind = "int" /\ result.val = 405

\* C11's case: the accessor went through an exchange with these two frames
\* and returned.
C11Witness ==
    /\ pc = "Ready"
    /\ result.call = "wavelength"
    /\ result.kind = "int"
    /\ WavelengthFrames
    /\ wire # <<>> /\ wire[Len(wire)] = <<"?", "L", "W", CR>>

\* The first caller's get() returned text.
MainReturned == pc = "Ready" /\ result.call = "get" /\ result.kind = "str"

\* The second caller's get() returned text.
OtherReturned ==
    other.pc = "Ready" /\ other.result.call = "get" /\ other.result.kind = "str"

InCall == pc \in {"get", "set"}

\* C13, in every state: an exchange that is over has made one write and one
\* or two read_until calls, and no exchange makes more.
C13Counts ==
    /\ nwrites <= 1 /\ nreads <= 2
    /\ (InCall /\ SendOver) => (nwrites = 1 /\ nreads \in {1, 2})

\* C13, in every step: a request is written only by an exchange that has
\* written nothing yet, never while an exchange awaits a terminator.
C13OneOutstanding ==
    wire' # wire
        => /\ phase = "Sending" /\ nwrites = 0
           /\ phase \notin {"AwaitingFirstDelimiter", "AwaitingSecondDelimiter"}
           /\ Len(wire') = Len(wire) + 1

\* C13: read_until returning within its timeout, every get/set call ends in
\* Complete or Failed after one write and at most two reads, and with one
\* caller no request is written while an earlier exchange awaits its reply.
C13CallsTerminate ==
    /\ []C13Counts
    /\ [][C13OneOutstanding]_vars
    /\ (InCall ~> (InCall /\ SendOver))

\* C13's case: a call ended after a read that returned nothing.
C13Witness ==
    /\ InCall
    /\ SendOver
    /\ nreads = 2
    /\ frame2 = <<>>

\* The calls that take the truth value of a BoolVal.
TruthCalls == {"interlock_is_closed", "laser_is_emitting", "bool"}

\* C14: BoolVal has exactly the wire values "0" (OFF) and "1" (ON), and in
\* either revision a call that takes the truth value of BoolVal(reply)
\* yields True iff the decoded reply is "1", False iff it is "0", and an
\* error for any other reply.
C14BoolValTruth ==
    /\ DOMAIN BoolVal = {"OFF", "ON"}
    /\ BoolVal.OFF = <<"0">> /\ BoolVal.ON = <<"1">>
    /\ (pc = "Ready" /\ result.call \in TruthCalls)
         => LET decoded == GetValue(rev, msg, reply)
            IN  /\ decoded = <<"1">> => (result.kind = "bool" /\ result.val = TRUE)
                /\ decoded = <<"0">> => (result.kind = "bool" /\ result.val = FALSE)
                /\ decoded \notin {<<"0">>, <<"1">>} => result.kind = "ValueError"

\* C15: set(Cmd.PulsePower, v) writes exactly "PP=v\r", and get() on the
\* device's frame "?PP=v" for the PulsePower query returns the decimal text
\* v unchanged.
C15PulsePowerRoundTrip ==
    /\ (pc = "set" /\ nwrites = 1)
         => wire[Len(wire)] = <<"P", "P", "=">> \o arg \o <<CR>>
    /\ (GetReturned /\ msg = Query.PulsePower
            /\ reply = QueryReply(Query.PulsePower, FALSE, arg))
         => result.val = arg

\* C15's case: a power with a decimal point was set, the device then
\* answered the query with it, and get() returned.
C15Witness ==
    /\ GetReturned
    /\ msg = Query.PulsePower
    /\ Len(arg) = 3
    /\ wire = << <<"P", "P", "=">> \o arg \o <<CR>>, <<"?", "P", "P", CR>> >>
    /\ reply = QueryReply(Query.PulsePower, FALSE, arg)
    /\ result.val = arg

\* The bytes of the emission command of enable() and of disable().
EmissionBytes(call) ==
    IF call = "enable" THEN <<"L", "E", "=", "1", CR>>
    ELSE <<"L", "E", "=", "0", CR>>

IsEmissionCommand(m) == IsPrefix(<<"L", "E", "=">>, m)

\* The last emission command among the first n messages of w, <<>> if none.
RECURSIVE LastEmission(_, _)
LastEmission(w, n) ==
    IF n = 0 THEN <<>>
    ELSE IF IsEmissionCommand(w[n]) THEN w[n]
    ELSE LastEmission(w, n - 1)

InEmissionCall == pc \in {"enable", "disable"}

\* C16: enable() makes exactly one exchange writing "LE=1\r" and disable()
\* exactly one writing "LE=0\r", neither writes anything else, no other call
\* of the session writes an emission command, and when either returns
\* successfully the last emission command on the wire is that call's.
C16EmissionCommands ==
    [][/\ wire' # wire =>
            /\ Len(wire') = Len(wire) + 1
            /\ SubSeq(wire', 1, Len(wire)) = wire
            /\ IF InEmissionCall
               THEN nwrites = 0 /\ wire'[Len(wire')] = EmissionBytes(pc)
               ELSE ~IsEmissionCommand(wire'[Len(wire')])
       /\ (InEmissionCall /\ pc' = "Ready") =>
            /\ nwrites = 1
            /\ result'.call = pc
            /\ result'.kind = "None" =>
                 LastEmission(wire', Len(wire')) = EmissionBytes(pc)]_vars

\* C16's case: enable() then disable() both returned successfully, with
\* the wire holding their two commands.
C16Witness ==
    /\ pc = "Ready"
    /\ result.call = "disable"
    /\ result.kind = "None"
    /\ wire = <<EmissionBytes("enable"), EmissionBytes("disable")>>

\* C17: when the device reports fault code 0, faults / get_faults returns
\* the empty list, not None and not a list holding an entry, in both
\* revisions of the driver.
C17NoFaultsEmptyList ==
    (AnsweredFaultCode("faults") /\ fcode = 0)
        => result.kind = "list" /\ result.val = <<>>

\* C17's case: the device answered "?FC=0" and get_faults of the packaged
\* revision returned the empty list.
C17Witness ==
    /\ AnsweredFaultCode("faults")
    /\ fcode = 0
    /\ rev = "vortran"
    /\ reply = FaultCodeReply(0)
    /\ result = Finished("faults", Value("list", <<>>))

\* The frame reply can be the device's payload for the request m: for a
\* query the echoed token and a value, for a command nothing or its echo.
PayloadFor(m, frame) ==
    IF IsQuery(m) THEN IsPrefix(m \o <<"=">>, frame)
    ELSE frame \in {<<>>, m}

\* A get or set call of the session returned a frame that is not empty.
SequentialReturn ==
    /\ pc = "Ready"
    /\ result.call \in {"get", "set"}
    /\ result.kind = "str"
    /\ reply # <<>>

\* C18: in a session of sequential get/set calls, late replies included,
\* the frame a call returns is the device's payload for that call's own
\* request, never a frame an earlier exchange left unread.
C18OwnReplyReturned ==
    SequentialReturn => PayloadFor(msg, reply)

\* The position of the last message m among the first n on the wire, 0 if
\* there is none.
RECURSIVE LastWritten(_, _)
LastWritten(m, n) ==
    IF n = 0 THEN 0
    ELSE IF wire[n] = m \o <<CR>> THEN n
    ELSE LastWritten(m, n - 1)

\* What was written after the last pulse-mode query.
AfterPulseModeQuery ==
    SubSeq(wire, LastWritten(Query.PulseMode, Len(wire)) + 1, Len(wire))

PowerSetpointSet ==
    pc = "Ready" /\ result.call = "power_setpoint" /\ result.kind = "None"

\* C19: the power_setpoint setter queries the pulse mode and then writes
\* one command only: PP=value when the reply was "1" and no LP command,
\* else a single LP=value.
C19OneSetpointCommand ==
    PowerSetpointSet =>
        AfterPulseModeQuery \in
            { <<SetMessage(Cmd(rev).PulsePower, arg) \o <<CR>> >>,
              <<SetMessage(Cmd(rev).LaserPower, arg) \o <<CR>> >> }

\* The first read_until returned a frame that carries a payload.
PayloadInFirstFrame ==
    EndsWithTerminator(frame1) /\ Len(frame1) > Len(REPLY_TERMINATION)

\* C20: what the first read_until returned is dropped whatever it holds:
\* nothing is returned while only the first read is behind, and an exchange
\* whose second read gave no bytes ends with the timeout or returns the
\* empty string, also when the first frame carried the payload.
C20FirstFrameDiscarded ==
    /\ phase = "AwaitingSecondDelimiter" => reply = <<>>
    /\ (SendOver /\ frame2 = <<>>) => (phase = "Failed" \/ reply = <<>>)

\* C20's case: the payload came in the first frame, no second frame
\* followed, and the exchange returned the empty string.
C20Witness ==
    /\ phase = "Complete"
    /\ nreads = 2
    /\ PayloadInFirstFrame
    /\ frame2 = <<>>
    /\ reply = <<>>

SendReturned == pc = "Ready" /\ result.call = "_send"

\* C21: _send with raise_timeout=False never raises the timeout: it makes
\* its write and both reads and returns, the empty string when the device
\* sent nothing; the timeout is raised only to a caller that asked for it.
C21LenientSendReturns ==
    /\ (pc = "_send" /\ ~raise_timeout) => phase # "Failed"
    /\ (SendReturned /\ ~raise_timeout)
         => /\ result.kind = "str"
            /\ nwrites = 1 /\ nreads = 2
            /\ (frame1 = <<>> /\ frame2 = <<>>) => result.val = <<>>
    /\ (SendReturned /\ result.kind = "SerialTimeoutException")
         => raise_timeout

\* C21's case: _send(msg, raise_timeout=False) to a silent device made both
\* reads and returned the empty string.
C21Witness ==
    /\ SendReturned
    /\ ~raise_timeout
    /\ nwrites = 1 /\ nreads = 2
    /\ frame1 = <<>> /\ frame2 = <<>>
    /\ result = Finished("_send", Value("str", <<>>))

\* The last message on the wire is m.
LastWrite(m) == wire # <<>> /\ wire[Len(wire)] = m \o <<CR>>

PulseModeCommand == SetMessage(Cmd(rev).PulseMode, arg)

DriveModeCommand == SetMessage(Cmd(rev).LaserDriverControlMode, arg)

\* C22, what holds in every state of the two setters: the query phase has
\* written the query alone, the set phase one command with the requested
\* value, directly after the query where there was one.
C22Writes ==
    /\ pc = "digital_modulation"
         => nwrites <= 1
            /\ (nwrites = 1 => LastWrite(Query.LaserDriverControlMode))
    /\ pc = "digital_modulation.set"
         => nwrites <= 1
            /\ (nwrites = 1 =>
                  /\ LastWrite(PulseModeCommand)
                  /\ Len(wire) >= 2
                  /\ wire[Len(wire) - 1] = Query.LaserDriverControlMode \o <<CR>>)
    /\ pc = "constant_current"
         => arg = BoolVal.OFF /\ nwrites <= 1
            /\ (nwrites = 1 => LastWrite(Query.PulseMode))
    /\ pc = "constant_current.set"
         => nwrites <= 1 /\ (nwrites = 1 => LastWrite(DriveModeCommand))

\* C22, every step of the two setters: after the reply "0" to ?C the
\* digital_modulation setter returns having written nothing more, after
\* "1" it goes on to the one PUL command; the constant_current setter goes on
\* to its C command after either member the ?PUL query gave, and ends before
\* it only with an exception; either set phase ends after its one write.
C22Step ==
    /\ (pc = "digital_modulation" /\ pc' # pc /\ phase = "Complete")
         => /\ wire' = wire
            /\ GetOutcome.val = BoolVal.OFF
                 => pc' = "Ready" /\ result'.kind = "None"
            /\ GetOutcome.val = BoolVal.ON
                 => pc' = "digital_modulation.set" /\ nwrites' = 0
    /\ (pc = "constant_current" /\ pc' # pc)
         => /\ wire' = wire
            /\ (phase = "Complete" /\ GetOutcome.val \in {BoolVal.OFF, BoolVal.ON})
                 => pc' = "constant_current.set" /\ nwrites' = 0
            /\ pc' = "Ready" => result'.kind \in Exceptions
    /\ (pc \in {"digital_modulation.set", "constant_current.set"} /\ pc' # pc)
         => pc' = "Ready" /\ nwrites = 1 /\ wire' = wire

\* C22: the digital_modulation setter queries ?C first and writes no PUL
\* command when the reply is "0", exactly one PUL=value when it is "1"; the
\* constant_current setter writes exactly one C=value, whatever the digital
\* modulation state.
C22ModeSetters == []C22Writes /\ [][C22Step]_vars

\* C22's case: digital_modulation was set in constant power mode and wrote
\* its query alone; constant_current = OFF then queried the pulse mode and
\* wrote its one command; every reply was read.
C22Witness ==
    /\ pc = "Ready"
    /\ result = Finished("constant_current", Value("None", <<>>))
    /\ wire = << Query.LaserDriverControlMode \o <<CR>>,
                 Query.PulseMode \o <<CR>>,
                 <<"C", "=", "0", CR>> >>
    /\ answered = 3
    /\ rx = <<>>

WavelengthQuery == Query.LaserWavelength \o <<CR>>

\* The step is an access of wavelength answered without an exchange.
CachedAccess ==
    pc = "Ready" /\ pc' = "Ready" /\ answered' = answered

\* C23, every step: once a value is cached it stays, whatever is called,
\* no further ?LW query is written, and an access returns the cached
\* integer without an exchange; an access is answered without an exchange
\* only from the cache; an access that ends in an exception leaves the
\* cache empty, one that returns an integer caches it; with an empty cache
\* an access sends the query.
C23Step ==
    /\ cache.hit =>
          /\ cache' = cache
          /\ pc' # "wavelength"
          /\ wire' # wire => wire'[Len(wire')] # WavelengthQuery
    /\ CachedAccess =>
          /\ cache.hit
          /\ result'.call = "wavelength" /\ result'.kind = "int"
          /\ result'.val = cache.val
          /\ wire' = wire
    /\ (pc = "wavelength" /\ pc' = "Ready") =>
          /\ result'.call = "wavelength"
          /\ IF result'.kind = "int"
             THEN cache' = [hit |-> TRUE, val |-> result'.val]
             ELSE cache' = NoCache /\ result'.kind \in Exceptions
    /\ (pc = "Ready" /\ pc' = "wavelength") =>
          /\ ~cache.hit
          /\ phase' = "Sending" /\ msg' = Query.LaserWavelength

\* C23: after one successful read of wavelength every later access returns
\* the same integer without another ?LW query, whatever other calls happen
\* in between; a failed access caches nothing and the next access sends
\* the query again.
C23WavelengthCached ==
    /\ [](IF cache.hit
          THEN \E i \in 1..Len(wire) : wire[i] = WavelengthQuery
          ELSE cache = NoCache)
    /\ [][C23Step]_vars

\* C23's case: the value was read once, another call followed, and a later
\* access returned the cached integer; the wire holds the one ?LW query.
C23Witness ==
    /\ pc = "Ready"
    /\ cache.hit
    /\ result.call = "wavelength" /\ result.kind = "int"
    /\ result.val = cache.val
    /\ Len(wire) = 2
    /\ wire[1] = WavelengthQuery
    /\ wire[2] # WavelengthQuery

====
